---- MODULE Spec2Model ----
(***************************************************************************)
(* Model of rustless' Endpoint dispatch pipeline                           *)
(* (src/framework/endpoint.rs): Endpoint::api_call matches the remaining   *)
(* path, applies the path captures to the parameter object and runs        *)
(* Endpoint::call_decode: before hooks, query-string merge, JSON body      *)
(* merge, before_validation hooks, validation, after_validation hooks,     *)
(* the handler, after hooks, and the extraction of the response.           *)
(*                                                                         *)
(* One behaviour of the model is one api_call on one endpoint; every       *)
(* action is one step of the call, in program order.                       *)
(***************************************************************************)
EXTENDS Integers, Sequences, FiniteSets, TLC

\* ---------------------------------------------------------------- bounds

\* At most MaxHooks callbacks are registered in CallInfo, over all phases.
MaxHooks == 2
\* The outer router seeds the parameter object with at most MaxSeeded keys.
MaxSeeded == 1

\* ---------------------------------------------------------------- JSON values

Keys == {"id", "active"}
Raw  == {"7", "8"}

\* serialize::json::Json, the variants the pipeline meets.
JString(s) == <<"String", s>>
JNumber(s) == <<"Number", s>>
Values == {JString(s) : s \in Raw}

\* JsonObject (a TreeMap<String, Json>): a function from a set of keys.
ObjectsUpTo(n) ==
    UNION {[D -> Values] : D \in {S \in SUBSET Keys : Cardinality(S) <= n}}
Objects == ObjectsUpTo(Cardinality(Keys))
EmptyObject == CHOOSE o \in Objects : DOMAIN o = {}

\* TreeMap::insert: adds the key, or replaces the value of a key it holds.
Insert(obj, k, v) == [x \in (DOMAIN obj) \cup {k} |-> IF x = k THEN v ELSE obj[x]]

\* The loop of lines 97-101:
\*   for (key, value) in query_params.as_object().unwrap().iter() {
\*       if !params.contains_key(key) { params.insert(key.to_string(), value.clone()); } }
\* `todo` is the part of the object the iterator has not yet produced.
RECURSIVE QueryLoop(_, _, _)
\* Variant: the loop without the contains_key test (insert replaces).
QueryLoopOverwrite(params, query_params, todo) ==
    IF todo = {} THEN params
    ELSE LET key == CHOOSE x \in todo : TRUE
         IN  QueryLoop(Insert(params, key, query_params[key]), query_params, todo \ {key})
\* Variant: the contains_key test inverted.
QueryLoopInverted(params, query_params, todo) ==
    IF todo = {} THEN params
    ELSE LET key == CHOOSE x \in todo : TRUE
         IN  QueryLoop(
                 IF key \in DOMAIN params
                 THEN Insert(params, key, query_params[key])
                 ELSE params,
                 query_params, todo \ {key})
QueryLoop(params, query_params, todo) ==
    IF todo = {} THEN params
    ELSE LET key == CHOOSE x \in todo : TRUE
         IN  QueryLoop(
                 IF key \notin DOMAIN params
                 THEN Insert(params, key, query_params[key])
                 ELSE params,
                 query_params, todo \ {key})

\* The loop of lines 129-133, the same over the keys of the JSON body.
RECURSIVE BodyLoop(_, _, _)
\* Variants: the loop without the contains_key test, and with the test inverted.
BodyLoopOverwrite(params, json_body, todo) ==
    IF todo = {} THEN params
    ELSE LET key == CHOOSE x \in todo : TRUE
         IN  BodyLoop(Insert(params, key, json_body[key]), json_body, todo \ {key})
BodyLoopInverted(params, json_body, todo) ==
    IF todo = {} THEN params
    ELSE LET key == CHOOSE x \in todo : TRUE
         IN  BodyLoop(
                 IF key \in DOMAIN params
                 THEN Insert(params, key, json_body[key])
                 ELSE params,
                 json_body, todo \ {key})
BodyLoop(params, json_body, todo) ==
    IF todo = {} THEN params
    ELSE LET key == CHOOSE x \in todo : TRUE
         IN  BodyLoop(
                 IF key \notin DOMAIN params
                 THEN Insert(params, key, json_body[key])
                 ELSE params,
                 json_body, todo \ {key})

\* ---------------------------------------------------------------- path

\* Option<T>
None == [some |-> FALSE, val |-> EmptyObject]
Some(v) == [some |-> TRUE, val |-> v]

\* The endpoint's compiled path, Path::parse("users/:id", true): literal
\* segments and named placeholders.
Lit(s) == [param |-> FALSE, text |-> s]
Param(s) == [param |-> TRUE, text |-> s]
EndpointPath == <<Lit("users"), Param("id")>>

\* The remaining request paths the router hands to api_call.
RestPaths == {<<"users", "7">>, <<"items", "7">>}

ParamNames(path) == {path[n].text : n \in {m \in DOMAIN path : path[m].param}}

\* Path::is_match: None unless every literal segment aligns; else the captures,
\* one string per placeholder.
is_match(path, rest_path) ==
    IF /\ Len(rest_path) = Len(path)
       /\ \A n \in DOMAIN path : path[n].param \/ path[n].text = rest_path[n]
    THEN Some([name \in ParamNames(path) |->
                 JString(rest_path[CHOOSE n \in DOMAIN path :
                                       path[n].param /\ path[n].text = name])])
    ELSE None

\* Path::apply_captures: writes each capture under its placeholder name; a key
\* the object already holds keeps its value.
apply_captures(params, captures) ==
    [k \in (DOMAIN params) \cup (DOMAIN captures) |->
        IF k \in DOMAIN params THEN params[k] ELSE captures[k]]

\* ---------------------------------------------------------------- request

\* req.url.query: None, or the raw query string.  query::parse either fails
\* on it or yields a flat object.
QueryStrings ==
    {[wellformed |-> FALSE, obj |-> EmptyObject]}
        \cup {[wellformed |-> TRUE, obj |-> o] : o \in Objects}
Queries == {[some |-> FALSE, val |-> [wellformed |-> TRUE, obj |-> EmptyObject]]}
               \cup {[some |-> TRUE, val |-> q] : q \in QueryStrings}

Ok(v) == [ok |-> TRUE, val |-> v]
Err(v) == [ok |-> FALSE, val |-> v]

query_parse(raw) == IF raw.wellformed THEN Ok(raw.obj) ELSE Err(EmptyObject)

\* The request body is a stream: what it holds shows when read_to_end reads it.
\* Its content, by what the body merge can tell apart: the read fails, the
\* bytes are not UTF-8, the text is empty, the text is not JSON, the JSON root
\* is not an object (an array or a scalar), the root is an object.
BodyKinds == {"io_error", "invalid_utf8", "empty", "malformed_json", "non_object", "object"}
Bodies == {[kind |-> k, obj |-> EmptyObject] : k \in BodyKinds \ {"object"}}
              \cup {[kind |-> "object", obj |-> o] : o \in Objects}

\* Request::read_to_end, String::from_utf8, String::len, json::from_str and
\* Json::as_object on such a body.
read_to_end(body) == IF body.kind = "io_error" THEN Err(body) ELSE Ok(body)
from_utf8(bytes) == IF bytes.kind = "invalid_utf8" THEN Err(bytes) ELSE Ok(bytes)
len(text) == IF text.kind = "empty" THEN 0 ELSE 1
from_str(text) == IF text.kind \in {"malformed_json", "empty"} THEN Err(text) ELSE Ok(text)
as_object(json) == IF json.kind = "object" THEN Some(json.obj) ELSE None

\* The body of a request before it is read.
Unread == [kind |-> "unread", obj |-> EmptyObject]

\* The requests api_call is given: the query string, Request::is_json_body
\* (the content type says JSON), and the body, not yet read.
Methods == {"GET", "POST"}

\* The requests api_call is given with one of `methods`.
RequestsWith(methods) ==
    {[method |-> m, query |-> q, is_json_body |-> j, body |-> Unread] :
        m \in methods, q \in Queries, j \in BOOLEAN}

\* The requests made with the method the endpoint was declared with.
Requests == RequestsWith({"GET"})

\* ---------------------------------------------------------------- endpoint

\* Endpoint.coercer: None, or a valico builder.  The builder of the model
\* requires both keys to be present and coerces them to numbers.
Coercers == {None, [some |-> TRUE, val |-> [k \in Keys |-> "number"]]}

\* Endpoint::new leaves handler None; Endpoint::handle sets it.
Endpoints ==
    {[method |-> "GET", path |-> EndpointPath, coercer |-> c, handler |-> h] :
        c \in Coercers, h \in BOOLEAN}

coerce(v) == JNumber(v[2])

\* valico's Builder::process(params): Ok(()) with every declared key coerced
\* in place; or, when a declared key is missing, Err(reason) with any of the
\* declared keys that are present already coerced.  The reason names a
\* missing key.
process(coercer, params) ==
    LET declared == DOMAIN coercer
        present == declared \cap DOMAIN params
        coerced(D) == [k \in DOMAIN params |-> IF k \in D THEN coerce(params[k]) ELSE params[k]]
    IN  IF declared \subseteq DOMAIN params
        THEN {[ok |-> TRUE, params |-> coerced(declared), reason |-> ""]}
        ELSE {[ok |-> FALSE, params |-> coerced(D),
               reason |-> CHOOSE k \in declared : k \notin DOMAIN params] :
                  D \in SUBSET present}

\* Variant: the is_some test inverted on the side without a schema.
validateNoSchemaFails(self, params) ==
    IF self.coercer.some
    THEN process(self.coercer.val, params)
    ELSE {[ok |-> FALSE, params |-> params, reason |-> ""]}

\* Endpoint::validate (lines 66-78): the outcomes of validation, Ok(()) or
\* Err(ValidationError{reason}), each with the object as validation leaves it.
validate(self, params) ==
    IF self.coercer.some
    THEN process(self.coercer.val, params)
    ELSE {[ok |-> TRUE, params |-> params, reason |-> ""]}

\* ---------------------------------------------------------------- CallInfo

Phases == <<"before", "before_validation", "after_validation", "after">>
PhaseSet == {Phases[n] : n \in DOMAIN Phases}

\* CallInfo: the four callback lists, by their lengths; callback n of a phase
\* is the n-th registered.
CallInfos ==
    {ci \in [PhaseSet -> 0..MaxHooks] :
        ci["before"] + ci["before_validation"] + ci["after_validation"] + ci["after"]
            <= MaxHooks}

\* ---------------------------------------------------------------- state

VARIABLES
    endpoint,       \* self: the Endpoint (path, coercer, handler)
    info,           \* info: the CallInfo, shared by every call
    rest_path,      \* rest_path: the part of the request path left to match
    req,            \* req: the Request (query string, JSON flag, body once read)
    entry_params,   \* the value of *params when api_call was entered
    params,         \* params: the caller's JsonObject, mutated in place
    client,         \* the Client of call_decode (line 82), and its response
    body_read,      \* whether req.read_to_end() was called
    pc,             \* the statement the call is at
    i,              \* position of the iterator of the running callback loop
    trace,          \* the steps the call has executed, in order
    handler_calls,  \* number of invocations of the endpoint's handler
    handler_params, \* the params.to_json() the handler was given
    result,         \* what api_call returned (kind "None" while it runs)
    parked          \* the call of the other thread, while this one runs

vars == <<endpoint, info, rest_path, req, entry_params, params, client, body_read,
          pc, i, trace, handler_calls, handler_params, result, parked>>

NoClient == [exists |-> FALSE, response |-> "none"]
NewClient == [exists |-> TRUE, response |-> "empty"]

Result(kind, phase, n) == [kind |-> kind, phase |-> phase, idx |-> n]
Running == Result("None", "", 0)
NotMatchError == Result("NotMatchError", "", 0)
QueryStringDecodeError == Result("QueryStringDecodeError", "", 0)
BodyDecodeError(msg) == Result("BodyDecodeError", msg, 0)
ValidationError(reason) == Result("ValidationError", reason, 0)
HookError(phase, n) == Result("HookError", phase, n)
HandlerError == Result("HandlerError", "", 0)
Response(client_) == Result("Response", client_.response, 0)
\* Option::unwrap on None: the task fails, api_call returns nothing.
Panic(where) == Result("Panic", where, 0)

\* A step of the call: what ran, which callback of its list, and whether it
\* returned Ok.
Step(name, n, ok) == [name |-> name, idx |-> n, ok |-> ok]

\* What one call owns: its arguments but self and info, its locals, and what
\* it has done.
Call ==
    [rest_path |-> rest_path, req |-> req, entry_params |-> entry_params,
     params |-> params, client |-> client, body_read |-> body_read, pc |-> pc,
     i |-> i, trace |-> trace, handler_calls |-> handler_calls,
     handler_params |-> handler_params, result |-> result]

\* A call about to enter api_call.
NewCall(rest_path_, req_, params_) ==
    [rest_path |-> rest_path_, req |-> req_, entry_params |-> params_,
     params |-> params_, client |-> NoClient, body_read |-> FALSE, pc |-> "api_call",
     i |-> 1, trace |-> <<>>, handler_calls |-> 0,
     handler_params |-> EmptyObject, result |-> Running]

\* No other thread.
NoCall ==
    [NewCall(<<>>, CHOOSE r \in Requests : ~r.query.some /\ ~r.is_json_body, EmptyObject)
        EXCEPT !.pc = "none"]

\* The state before api_call: the endpoint is built, the CallInfo is filled,
\* the router has seeded params and chosen rest_path, the request is there.
Init ==
    /\ endpoint \in Endpoints
    /\ info \in CallInfos
    /\ rest_path \in RestPaths
    /\ req \in Requests
    /\ entry_params \in ObjectsUpTo(MaxSeeded)
    /\ params = entry_params
    /\ client = NoClient
    /\ body_read = FALSE
    /\ pc = "api_call"
    /\ i = 1
    /\ trace = <<>>
    /\ handler_calls = 0
    /\ handler_params = EmptyObject
    /\ result = Running
    /\ parked = NoCall

\* The calls of every method, on a caller's object that is empty.
InitMethod ==
    /\ endpoint \in Endpoints
    /\ info \in CallInfos
    /\ rest_path \in RestPaths
    /\ req \in RequestsWith(Methods)
    /\ entry_params = EmptyObject
    /\ params = entry_params
    /\ client = NoClient
    /\ body_read = FALSE
    /\ pc = "api_call"
    /\ i = 1
    /\ trace = <<>>
    /\ handler_calls = 0
    /\ handler_params = EmptyObject
    /\ result = Running
    /\ parked = NoCall

\* return Err(e) / try! on an Err / a panic: the call ends with `r`.
Return(r) == /\ result' = r
             /\ pc' = "done"

\* ---------------------------------------------------------------- api_call

\* Variant: the Client is made before the path is matched.
ApiCallClientFirst ==
    /\ pc = "api_call"
    /\ client' = NewClient
    /\ LET m == is_match(endpoint.path, rest_path)
       IN  IF m.some
           THEN /\ params' = apply_captures(params, m.val)
                /\ trace' = Append(trace, Step("apply_captures", 0, TRUE))
                /\ pc' = "before"
                /\ i' = 1
                /\ UNCHANGED result
           ELSE /\ Return(NotMatchError)
                /\ UNCHANGED <<params, trace, i>>
    /\ UNCHANGED <<parked, endpoint, info, rest_path, req, entry_params, body_read,
                   handler_calls, handler_params>>

\* Endpoint::api_call (lines 166-176), up to Client::new of call_decode (line 82).
ApiCall ==
    /\ pc = "api_call"
    /\ LET m == is_match(endpoint.path, rest_path)
       IN  IF m.some
           THEN /\ params' = apply_captures(params, m.val)
                /\ client' = NewClient
                /\ trace' = Append(trace, Step("apply_captures", 0, TRUE))
                /\ pc' = "before"
                /\ i' = 1
                /\ UNCHANGED result
           ELSE /\ Return(NotMatchError)
                /\ UNCHANGED <<params, client, trace, i>>
    /\ UNCHANGED <<parked, endpoint, info, rest_path, req, entry_params, body_read,
                   handler_calls, handler_params>>

\* ---------------------------------------------------------------- callbacks

\* Variant: the loop pops each callback it runs off the shared CallInfo.
RunCallbacksDrain(phase, next) ==
    /\ pc = phase
    /\ IF info[phase] > 0
       THEN /\ info' = [info EXCEPT ![phase] = @ - 1]
            /\ \E ok \in BOOLEAN :
                 /\ trace' = Append(trace, Step(phase, i, ok))
                 /\ IF ok
                    THEN /\ i' = i + 1
                         /\ UNCHANGED <<pc, result>>
                    ELSE /\ Return(HookError(phase, i))
                         /\ UNCHANGED i
       ELSE /\ pc' = next
            /\ i' = 1
            /\ UNCHANGED <<trace, result, info>>
    /\ UNCHANGED <<parked, endpoint, rest_path, req, entry_params, params, client,
                   body_read, handler_calls, handler_params>>

\* Variant: the list is walked from its end (iter().rev()).
RunCallbacksReversed(phase, next) ==
    /\ pc = phase
    /\ IF i <= info[phase]
       THEN \E ok \in BOOLEAN :
              /\ trace' = Append(trace, Step(phase, info[phase] + 1 - i, ok))
              /\ IF ok
                 THEN /\ i' = i + 1
                      /\ UNCHANGED <<pc, result>>
                 ELSE /\ Return(HookError(phase, info[phase] + 1 - i))
                      /\ UNCHANGED i
       ELSE /\ pc' = next
            /\ i' = 1
            /\ UNCHANGED <<trace, result>>
    /\ UNCHANGED <<parked, endpoint, info, rest_path, req, entry_params, params, client,
                   body_read, handler_calls, handler_params>>

\* Variant: the callback's result is dropped (no try!).
RunCallbacksNoTry(phase, next) ==
    /\ pc = phase
    /\ IF i <= info[phase]
       THEN \E ok \in BOOLEAN :
              /\ trace' = Append(trace, Step(phase, i, ok))
              /\ i' = i + 1
              /\ UNCHANGED <<pc, result>>
       ELSE /\ pc' = next
            /\ i' = 1
            /\ UNCHANGED <<trace, result>>
    /\ UNCHANGED <<parked, endpoint, info, rest_path, req, entry_params, params, client,
                   body_read, handler_calls, handler_params>>

\* for cb in info.<phase>.iter() { try!((*cb)(&mut client)); }
\* One step runs the next callback, which returns Ok(()) or an error of its
\* own, or leaves the exhausted loop for the statement `next`.
RunCallbacks(phase, next) ==
    /\ pc = phase
    /\ IF i <= info[phase]
       THEN \E ok \in BOOLEAN :
              /\ trace' = Append(trace, Step(phase, i, ok))
              /\ IF ok
                 THEN /\ i' = i + 1
                      /\ UNCHANGED <<pc, result>>
                 ELSE /\ Return(HookError(phase, i))
                      /\ UNCHANGED i
       ELSE /\ pc' = next
            /\ i' = 1
            /\ UNCHANGED <<trace, result>>
    /\ UNCHANGED <<parked, endpoint, info, rest_path, req, entry_params, params, client,
                   body_read, handler_calls, handler_params>>

\* Variant: the before loop is followed by the body merge.
BeforeThenBody ==
    /\ pc = "before"
    /\ RunCallbacks("before", "body")

\* lines 84-86
Before ==
    /\ pc = "before"
    /\ RunCallbacks("before", "query")

\* lines 142-144
BeforeValidation ==
    /\ pc = "before_validation"
    /\ RunCallbacks("before_validation", "validate")

\* lines 148-150
AfterValidation ==
    /\ pc = "after_validation"
    /\ RunCallbacks("after_validation", "handler")

\* Variant: the after callback's result is dropped (no try!).
AfterNoTry ==
    /\ pc = "after"
    /\ IF i <= info["after"]
       THEN \E ok \in BOOLEAN :
              /\ trace' = Append(trace, Step("after", i, ok))
              /\ i' = i + 1
              /\ UNCHANGED <<pc, result>>
       ELSE /\ Return(Response(client))
            /\ UNCHANGED <<trace, i>>
    /\ UNCHANGED <<parked, endpoint, info, rest_path, req, entry_params, params, client,
                   body_read, handler_calls, handler_params>>

\* lines 156-160: the after callbacks, then Ok(client.move_response()).
After ==
    /\ pc = "after"
    /\ IF i <= info["after"]
       THEN \E ok \in BOOLEAN :
              /\ trace' = Append(trace, Step("after", i, ok))
              /\ IF ok
                 THEN /\ i' = i + 1
                      /\ UNCHANGED <<pc, result>>
                 ELSE /\ Return(HookError("after", i))
                      /\ UNCHANGED i
       ELSE /\ Return(Response(client))
            /\ UNCHANGED <<trace, i>>
    /\ UNCHANGED <<parked, endpoint, info, rest_path, req, entry_params, params, client,
                   body_read, handler_calls, handler_params>>

\* ---------------------------------------------------------------- merges

\* The step `name` ran and returned Ok / failed with `r`, which ends the call.
Did(name) == trace' = Append(trace, Step(name, 0, TRUE))
Fail(name, r) == /\ trace' = Append(trace, Step(name, 0, FALSE))
                 /\ Return(r)

\* Variant: a query string that does not parse is skipped.
QueryMergeSkipsMalformed ==
    /\ pc = "query"
    /\ IF req.query.some
       THEN LET maybe_query_params == query_parse(req.query.val)
            IN  IF maybe_query_params.ok
                THEN /\ params' = QueryLoop(params, maybe_query_params.val,
                                            DOMAIN maybe_query_params.val)
                     /\ Did("query_merge")
                     /\ pc' = "body"
                     /\ UNCHANGED result
                ELSE /\ trace' = Append(trace, Step("query_merge", 0, FALSE))
                     /\ pc' = "body"
                     /\ UNCHANGED <<params, result>>
       ELSE /\ Did("query_merge")
            /\ pc' = "body"
            /\ UNCHANGED <<params, result>>
    /\ UNCHANGED <<parked, endpoint, info, rest_path, req, entry_params, client, body_read,
                   i, handler_calls, handler_params>>

\* lines 93-107: extend params with query-string params if any.
QueryMerge ==
    /\ pc = "query"
    /\ IF req.query.some
       THEN LET maybe_query_params == query_parse(req.query.val)
            IN  IF maybe_query_params.ok
                THEN /\ params' = QueryLoop(params, maybe_query_params.val,
                                            DOMAIN maybe_query_params.val)
                     /\ Did("query_merge")
                     /\ pc' = "body"
                     /\ UNCHANGED result
                ELSE /\ Fail("query_merge", QueryStringDecodeError)
                     /\ UNCHANGED params
       ELSE /\ Did("query_merge")
            /\ pc' = "body"
            /\ UNCHANGED <<params, result>>
    /\ UNCHANGED <<parked, endpoint, info, rest_path, req, entry_params, client, body_read,
                   i, handler_calls, handler_params>>

\* Variant: the parameters go back to their entry value when the body fails.
BodyMergeRollsBack ==
    /\ pc = "body"
    /\ IF req.is_json_body
       THEN \E body \in Bodies :
            LET maybe_body == read_to_end(body)
                maybe_utf8 == from_utf8(maybe_body.val)
                utf8_string_body == maybe_utf8.val
                maybe_json_body == from_str(utf8_string_body)
                object == as_object(maybe_json_body.val)
            IN  /\ body_read' = TRUE
                /\ req' = [req EXCEPT !.body = body]
                /\ IF ~maybe_body.ok
                   THEN /\ Fail("body_merge", BodyDecodeError("io"))
                        /\ params' = entry_params
                   ELSE IF ~maybe_utf8.ok
                   THEN /\ Fail("body_merge", BodyDecodeError("Invalid UTF-8 sequence"))
                        /\ params' = entry_params
                   ELSE IF len(utf8_string_body) > 0
                   THEN IF ~maybe_json_body.ok
                        THEN /\ Fail("body_merge", BodyDecodeError("json"))
                             /\ params' = entry_params
                        ELSE IF ~object.some
                        THEN /\ Fail("body_merge", Panic("as_object"))
                             /\ UNCHANGED params
                        ELSE /\ params' = BodyLoop(params, object.val, DOMAIN object.val)
                             /\ Did("body_merge")
                             /\ pc' = "before_validation"
                             /\ UNCHANGED result
                   ELSE /\ Did("body_merge")
                        /\ pc' = "before_validation"
                        /\ UNCHANGED <<params, result>>
       ELSE /\ Did("body_merge")
            /\ pc' = "before_validation"
            /\ UNCHANGED <<params, result, body_read, req>>
    /\ UNCHANGED <<parked, endpoint, info, rest_path, entry_params, client,
                   i, handler_calls, handler_params>>

\* Variant: the body is parsed whatever its length (no len() > 0 test).
BodyMergeNoLenTest ==
    /\ pc = "body"
    /\ IF req.is_json_body
       THEN \E body \in Bodies :
            LET maybe_body == read_to_end(body)
                maybe_utf8 == from_utf8(maybe_body.val)
                utf8_string_body == maybe_utf8.val
                maybe_json_body == from_str(utf8_string_body)
                object == as_object(maybe_json_body.val)
            IN  /\ body_read' = TRUE
                /\ req' = [req EXCEPT !.body = body]
                /\ IF ~maybe_body.ok
                   THEN /\ Fail("body_merge", BodyDecodeError("io"))
                        /\ UNCHANGED params
                   ELSE IF ~maybe_utf8.ok
                   THEN /\ Fail("body_merge", BodyDecodeError("Invalid UTF-8 sequence"))
                        /\ UNCHANGED params
                   ELSE IF ~maybe_json_body.ok
                   THEN /\ Fail("body_merge", BodyDecodeError("json"))
                        /\ UNCHANGED params
                   ELSE IF ~object.some
                   THEN /\ Fail("body_merge", Panic("as_object"))
                        /\ UNCHANGED params
                   ELSE /\ params' = BodyLoop(params, object.val, DOMAIN object.val)
                        /\ Did("body_merge")
                        /\ pc' = "before_validation"
                        /\ UNCHANGED result
       ELSE /\ Did("body_merge")
            /\ pc' = "before_validation"
            /\ UNCHANGED <<params, result, body_read, req>>
    /\ UNCHANGED <<parked, endpoint, info, rest_path, entry_params, client,
                   i, handler_calls, handler_params>>

\* lines 110-138: extend params with json-encoded body params if any.
BodyMerge ==
    /\ pc = "body"
    /\ IF req.is_json_body
       THEN \E body \in Bodies :
            LET maybe_body == read_to_end(body)
                maybe_utf8 == from_utf8(maybe_body.val)
                utf8_string_body == maybe_utf8.val
                maybe_json_body == from_str(utf8_string_body)
                object == as_object(maybe_json_body.val)
            IN  /\ body_read' = TRUE
                /\ req' = [req EXCEPT !.body = body]
                /\ IF ~maybe_body.ok
                   THEN /\ Fail("body_merge", BodyDecodeError("io"))
                        /\ UNCHANGED params
                   ELSE IF ~maybe_utf8.ok
                   THEN /\ Fail("body_merge", BodyDecodeError("Invalid UTF-8 sequence"))
                        /\ UNCHANGED params
                   ELSE IF len(utf8_string_body) > 0
                   THEN IF ~maybe_json_body.ok
                        THEN /\ Fail("body_merge", BodyDecodeError("json"))
                             /\ UNCHANGED params
                        ELSE IF ~object.some
                        THEN /\ Fail("body_merge", Panic("as_object"))
                             /\ UNCHANGED params
                        ELSE /\ params' = BodyLoop(params, object.val, DOMAIN object.val)
                             /\ Did("body_merge")
                             /\ pc' = "before_validation"
                             /\ UNCHANGED result
                   ELSE /\ Did("body_merge")
                        /\ pc' = "before_validation"
                        /\ UNCHANGED <<params, result>>
       ELSE /\ Did("body_merge")
            /\ pc' = "before_validation"
            /\ UNCHANGED <<params, result, body_read, req>>
    /\ UNCHANGED <<parked, endpoint, info, rest_path, entry_params, client,
                   i, handler_calls, handler_params>>

\* ---------------------------------------------------------------- validation, handler

\* Variant: the result of validation is dropped (no try!).
ValidateNoTry ==
    /\ pc = "validate"
    /\ \E out \in validate(endpoint, params) :
         /\ params' = out.params
         /\ trace' = Append(trace, Step("validate", 0, out.ok))
         /\ pc' = "after_validation"
         /\ UNCHANGED result
    /\ UNCHANGED <<parked, endpoint, info, rest_path, req, entry_params, client, body_read,
                   i, handler_calls, handler_params>>

\* Variant: validation works on a copy, the coerced values are lost.
ValidateOnCopy ==
    /\ pc = "validate"
    /\ \E out \in validate(endpoint, params) :
         /\ params' = params
         /\ IF out.ok
            THEN /\ Did("validate")
                 /\ pc' = "after_validation"
                 /\ UNCHANGED result
            ELSE Fail("validate", ValidationError(out.reason))
    /\ UNCHANGED <<parked, endpoint, info, rest_path, req, entry_params, client, body_read,
                   i, handler_calls, handler_params>>

\* line 146: try!(self.validate(params)).
Validate ==
    /\ pc = "validate"
    /\ \E out \in validate(endpoint, params) :
         /\ params' = out.params
         /\ IF out.ok
            THEN /\ Did("validate")
                 /\ pc' = "after_validation"
                 /\ UNCHANGED result
            ELSE Fail("validate", ValidationError(out.reason))
    /\ UNCHANGED <<parked, endpoint, info, rest_path, req, entry_params, client, body_read,
                   i, handler_calls, handler_params>>

\* Variant: the handler's error is dropped and the after callbacks run.
HandlerNoTry ==
    /\ pc = "handler"
    /\ IF endpoint.handler
       THEN /\ handler_calls' = handler_calls + 1
            /\ handler_params' = params
            /\ \E ok \in BOOLEAN :
                 /\ trace' = Append(trace, Step("handler", 0, ok))
                 /\ client' = IF ok THEN [client EXCEPT !.response = "handled"] ELSE client
                 /\ pc' = "after"
                 /\ UNCHANGED result
       ELSE /\ Return(Panic("handler"))
            /\ UNCHANGED <<trace, handler_calls, handler_params, client>>
    /\ UNCHANGED <<parked, endpoint, info, rest_path, req, entry_params, params, body_read, i>>

\* lines 152-154: self.handler.unwrap(), then the handler on (client, &params.to_json());
\* the handler returns the client, with the response it wrote, or an error.
Handler ==
    /\ pc = "handler"
    /\ IF endpoint.handler
       THEN /\ handler_calls' = handler_calls + 1
            /\ handler_params' = params
            /\ \E ok \in BOOLEAN :
                 IF ok
                 THEN /\ Did("handler")
                      /\ client' = [client EXCEPT !.response = "handled"]
                      /\ pc' = "after"
                      /\ UNCHANGED result
                 ELSE /\ Fail("handler", HandlerError)
                      /\ UNCHANGED client
       ELSE /\ Return(Panic("handler"))
            /\ UNCHANGED <<trace, handler_calls, handler_params, client>>
    /\ UNCHANGED <<parked, endpoint, info, rest_path, req, entry_params, params, body_read, i>>

Next ==
    \/ ApiCall
    \/ Before
    \/ QueryMerge
    \/ BodyMerge
    \/ BeforeValidation
    \/ Validate
    \/ AfterValidation
    \/ Handler
    \/ After

Spec == Init /\ [][Next]_vars

\* The same call, made with any method.
SpecMethod == InitMethod /\ [][Next]_vars

\* ---------------------------------------------------------------- two threads

\* The server hands the processor to the other thread: the running call is
\* parked where it is and the parked one goes on.  self and info are the same
\* for both.
Switch ==
    /\ parked.pc # "none"
    /\ parked # Call
    /\ rest_path' = parked.rest_path
    /\ req' = parked.req
    /\ entry_params' = parked.entry_params
    /\ params' = parked.params
    /\ client' = parked.client
    /\ body_read' = parked.body_read
    /\ pc' = parked.pc
    /\ i' = parked.i
    /\ trace' = parked.trace
    /\ handler_calls' = parked.handler_calls
    /\ handler_params' = parked.handler_params
    /\ result' = parked.result
    /\ parked' = Call
    /\ UNCHANGED <<endpoint, info>>

\* The calls two threads make at once: requests for users/7 on an empty
\* object, whose query string, when it parses, gives active=8.
ConcurrentRequests ==
    {r \in Requests :
        r.query.some => (r.query.val.wellformed =>
                            r.query.val.obj = [k \in {"active"} |-> JString("8")])}

ConcurrentCalls ==
    {NewCall(<<"users", "7">>, r, EmptyObject) : r \in ConcurrentRequests}

\* Two calls share one Endpoint and one CallInfo with at most one callback
\* in a phase; one of the two requests has no JSON body.
InitConcurrent ==
    /\ endpoint \in Endpoints
    /\ info \in {ci \in CallInfos : \A ph \in PhaseSet : ci[ph] <= 1}
    /\ parked \in {c \in ConcurrentCalls : ~c.req.is_json_body}
    /\ \E c \in ConcurrentCalls :
         /\ rest_path = c.rest_path
         /\ req = c.req
         /\ entry_params = c.entry_params
         /\ params = c.params
         /\ client = c.client
         /\ body_read = c.body_read
         /\ pc = c.pc
         /\ i = c.i
         /\ trace = c.trace
         /\ handler_calls = c.handler_calls
         /\ handler_params = c.handler_params
         /\ result = c.result

NextConcurrent ==
    \/ Next
    \/ Switch

SpecConcurrent == InitConcurrent /\ [][NextConcurrent]_vars

\* ================================================================ claims

\* What the call's inputs hold: the path captures, the parsed query string
\* and the JSON object read from the body (None when the source gives no
\* object).
Captures == is_match(endpoint.path, rest_path)
QueryObject ==
    IF req.query.some /\ query_parse(req.query.val).ok
    THEN Some(query_parse(req.query.val).val)
    ELSE None
BodyObject ==
    IF req.is_json_body /\ req.body.kind = "object" THEN Some(req.body.obj) ELSE None

Executed(name) == \E n \in DOMAIN trace : trace[n].name = name
Succeeded(name) == \E n \in DOMAIN trace : trace[n].name = name /\ trace[n].ok

\* Keys all three sources give.
InAllThree == (DOMAIN Captures.val) \cap (DOMAIN QueryObject.val) \cap (DOMAIN BodyObject.val)

\* The merges are complete and validation has not yet touched the object.
Merged == Succeeded("body_merge") /\ ~Executed("validate")

\* ---------------------------------------------------------------- C1

\* C1 as claimed: in every call that reaches the handler, a key given by the
\* path captures, the query string and the body is handed to the handler with
\* the path-capture value.
C1_PathValueHandedToHandler ==
    handler_calls > 0 =>
        \A k \in InAllThree : handler_params[k] = Captures.val[k]

\* C1, amended: for a key given by all three sources and not already in the
\* parameter object on entry, the object holds the path-capture value once the
\* merges are complete, and the handler is handed that value when the endpoint
\* declares no schema.
C1_PathCaptureWins ==
    \A k \in InAllThree \ DOMAIN entry_params :
        /\ Merged => params[k] = Captures.val[k]
        /\ (handler_calls > 0 /\ ~endpoint.coercer.some)
               => handler_params[k] = Captures.val[k]

C1_Witness ==
    /\ handler_calls > 0
    /\ ~endpoint.coercer.some
    /\ \E k \in InAllThree \ DOMAIN entry_params :
         /\ QueryObject.val[k] # Captures.val[k]
         /\ BodyObject.val[k] # Captures.val[k]
         /\ handler_params[k] = Captures.val[k]

\* ---------------------------------------------------------------- C2

\* C2 as claimed: a key of the query string that is no path capture has the
\* query-string value in the parameter object the merges end with.
C2_QueryValueFinal ==
    Merged =>
        \A k \in (DOMAIN QueryObject.val) \ (DOMAIN Captures.val) :
            params[k] = QueryObject.val[k]

\* C2, amended: a key of the query string that is neither a path capture nor
\* already in the parameter object on entry has the query-string value once
\* the merges are complete, also when the body gives it too; it is the final
\* value when the endpoint declares no schema.
C2_QueryBeatsBody ==
    \A k \in (DOMAIN QueryObject.val) \ ((DOMAIN Captures.val) \cup (DOMAIN entry_params)) :
        /\ Merged => params[k] = QueryObject.val[k]
        /\ (result.kind = "Response" /\ ~endpoint.coercer.some)
               => params[k] = QueryObject.val[k]

C2_Witness ==
    /\ result.kind = "Response"
    /\ ~endpoint.coercer.some
    /\ \E k \in (DOMAIN QueryObject.val) \ ((DOMAIN Captures.val) \cup (DOMAIN entry_params)) :
         /\ k \in DOMAIN BodyObject.val
         /\ BodyObject.val[k] # QueryObject.val[k]
         /\ params[k] = QueryObject.val[k]

\* ---------------------------------------------------------------- C3

\* C3: every key the parameter object holds on entry still has its entry
\* value after the path captures are applied, after the query-string merge and
\* after the body merge.
C3_EntryKeysKept ==
    ~Executed("validate") =>
        \A k \in DOMAIN entry_params :
            k \in DOMAIN params /\ params[k] = entry_params[k]

\* A seeded key that the captures, the query string and the body all give
\* with another value, after the body merge.
C3_Witness ==
    /\ Merged
    /\ \E k \in (DOMAIN entry_params) \cap InAllThree :
         /\ Captures.val[k] # entry_params[k]
         /\ QueryObject.val[k] # entry_params[k]
         /\ BodyObject.val[k] # entry_params[k]
         /\ params[k] = entry_params[k]

\* ---------------------------------------------------------------- C4

\* The fixed sequence of steps of a call under a CallInfo `ci`.
Callbacks(ci, phase) == [n \in 1..ci[phase] |-> <<phase, n>>]
FixedSequence(ci) ==
    <<<<"apply_captures", 0>>>>
        \o Callbacks(ci, "before")
        \o <<<<"query_merge", 0>>, <<"body_merge", 0>>>>
        \o Callbacks(ci, "before_validation")
        \o <<<<"validate", 0>>>>
        \o Callbacks(ci, "after_validation")
        \o <<<<"handler", 0>>>>
        \o Callbacks(ci, "after")

Executions == [n \in DOMAIN trace |-> <<trace[n].name, trace[n].idx>>]
IsPrefix(a, b) == Len(a) <= Len(b) /\ \A n \in DOMAIN a : a[n] = b[n]

\* C4: the steps a call has executed are a prefix of the fixed sequence; while
\* the before callbacks run the parameter object holds the entry keys and the
\* path captures only, and the before_validation callbacks run with both
\* merges done.
C4_FixedOrder ==
    /\ IsPrefix(Executions, FixedSequence(info))
    /\ pc = "before" => /\ params = apply_captures(entry_params, Captures.val)
                        /\ ~body_read
    /\ pc = "before_validation" => /\ Succeeded("query_merge")
                                   /\ Succeeded("body_merge")

\* A call that ran the whole sequence, with callbacks in two phases.
C4_Witness ==
    /\ result.kind = "Response"
    /\ info["before"] >= 1
    /\ info["before_validation"] >= 1
    /\ Executions = FixedSequence(info)
    /\ QueryObject.some
    /\ BodyObject.some

\* ---------------------------------------------------------------- C5

IsCallback(step) == step.name \in PhaseSet

\* C5: a callback that returned an error is the last step of the call, and
\* the call has ended with that error; no handler ran unless the callback is
\* an after callback, and after a failed before_validation callback there is
\* no validation.
C5_FirstHookErrorEnds ==
    \A n \in DOMAIN trace :
        (IsCallback(trace[n]) /\ ~trace[n].ok) =>
            /\ n = Len(trace)
            /\ pc = "done"
            /\ ~ENABLED Next
            /\ result = HookError(trace[n].name, trace[n].idx)
            /\ trace[n].name # "after" => handler_calls = 0
            /\ trace[n].name \in {"before", "before_validation"} => ~Executed("validate")
            /\ trace[n].name = "before" => ~Executed("query_merge") /\ ~body_read

\* The first of two before_validation callbacks has failed.
C5_Witness ==
    /\ info["before_validation"] = 2
    /\ Len(trace) > 0
    /\ trace[Len(trace)] = Step("before_validation", 1, FALSE)
    /\ result = HookError("before_validation", 1)

\* ---------------------------------------------------------------- C6

\* C6: when the handler returns an error, the call has ended with exactly
\* that error: the handler is the last step, no after callback ran and the
\* result is no Response.
C6_HandlerErrorEnds ==
    \A n \in DOMAIN trace :
        (trace[n].name = "handler" /\ ~trace[n].ok) =>
            /\ n = Len(trace)
            /\ pc = "done"
            /\ ~ENABLED Next
            /\ result = HandlerError
            /\ ~Executed("after")

C6_Witness ==
    /\ info["after"] >= 1
    /\ Len(trace) > 0
    /\ trace[Len(trace)] = Step("handler", 0, FALSE)
    /\ result = HandlerError

\* ---------------------------------------------------------------- C7

\* The parameter object the three sources merge to.
MergedParams ==
    BodyLoop(QueryLoop(apply_captures(entry_params, Captures.val),
                       QueryObject.val, DOMAIN QueryObject.val),
             BodyObject.val, DOMAIN BodyObject.val)

Position(name, n) == CHOOSE m \in DOMAIN trace : trace[m].name = name /\ trace[m].idx = n

\* C7: the handler is never invoked twice, and never before validation has
\* succeeded and every after_validation callback has returned Ok; it is given
\* the merged parameter object as validation left it; a call that returns a
\* Response has invoked it exactly once.
C7_HandlerOnce ==
    /\ handler_calls <= 1
    /\ handler_calls = Cardinality({n \in DOMAIN trace : trace[n].name = "handler"})
    /\ handler_calls > 0 =>
          /\ Succeeded("validate")
          /\ \A n \in 1..info["after_validation"] :
                /\ Step("after_validation", n, TRUE) \in {trace[m] : m \in DOMAIN trace}
                /\ Position("after_validation", n) < Position("handler", 0)
          /\ Position("validate", 0) < Position("handler", 0)
          /\ handler_params \in
                {out.params : out \in {o \in validate(endpoint, MergedParams) : o.ok}}
    /\ result.kind = "Response" => handler_calls = 1

\* A Response of an endpoint with a schema, after an after_validation
\* callback, on parameters that came from all three sources.
C7_Witness ==
    /\ result.kind = "Response"
    /\ handler_calls = 1
    /\ endpoint.coercer.some
    /\ info["after_validation"] >= 1
    /\ handler_params # MergedParams
    /\ QueryObject.some
    /\ BodyObject.some

\* ---------------------------------------------------------------- C8

\* C8: a call on a path that does not match has returned NotMatchError, an
\* error no matching call returns, and has changed nothing: the parameter
\* object is as on entry, there is no Client, no step ran, the handler was
\* not invoked and the body was not read.
C8_NotMatchNoEffects ==
    /\ (~Captures.some /\ pc # "api_call") =>
          /\ pc = "done"
          /\ ~ENABLED Next
          /\ result = NotMatchError
          /\ params = entry_params
          /\ client = NoClient
          /\ trace = <<>>
          /\ handler_calls = 0
          /\ ~body_read
    /\ (Captures.some /\ pc = "done") => result.kind # "NotMatchError"

\* The call on a path that does not match has returned, with seeded
\* parameters and a request that carries a query string and a JSON body.
C8_Witness ==
    /\ ~Captures.some
    /\ pc = "done"
    /\ result = NotMatchError
    /\ entry_params # EmptyObject
    /\ QueryObject.some
    /\ req.is_json_body
    /\ info["before"] >= 1

\* ---------------------------------------------------------------- C9

MalformedQuery == req.query.some /\ ~query_parse(req.query.val).ok

\* C9: once the query-string merge has run on a malformed query string, the
\* call has ended with QueryStringDecodeError, the parameter object is as it
\* was before the merge (the entry keys and the path captures, no query key),
\* and nothing ran after the merge: the body was not read, there was no
\* validation and no handler.
C9_MalformedQuery ==
    (MalformedQuery /\ Executed("query_merge")) =>
        /\ pc = "done"
        /\ ~ENABLED Next
        /\ result = QueryStringDecodeError
        /\ params = apply_captures(entry_params, Captures.val)
        /\ trace[Len(trace)] = Step("query_merge", 0, FALSE)
        /\ ~body_read
        /\ ~Executed("validate")
        /\ handler_calls = 0

\* A malformed query string met after a before callback, on a request with a
\* JSON body.
C9_Witness ==
    /\ MalformedQuery
    /\ Executed("query_merge")
    /\ Executed("before")
    /\ req.is_json_body
    /\ info["before_validation"] >= 1
    /\ result = QueryStringDecodeError

\* ---------------------------------------------------------------- C10

EmptyJsonBody == req.is_json_body /\ req.body.kind = "empty"

\* C10: the body merge on a request with the JSON flag set that reads an
\* empty body returns no error and leaves the parameter object as it is; the
\* call goes on to the before_validation callbacks.
C10_EmptyBody ==
    [][(pc = "body" /\ EmptyJsonBody') =>
          /\ params' = params
          /\ result' = Running
          /\ pc' = "before_validation"
          /\ trace' = Append(trace, Step("body_merge", 0, TRUE))]_vars

\* The first before_validation callback has run after the merge of an empty
\* JSON body.
C10_Witness ==
    /\ EmptyJsonBody
    /\ body_read
    /\ Succeeded("body_merge")
    /\ Executed("before_validation")
    /\ QueryObject.some
    /\ params # EmptyObject

\* ---------------------------------------------------------------- C11

\* C11: validation on an endpoint that declares no schema returns Ok and
\* leaves the parameter object as it is; the call goes on.
C11_NoSchemaValidates ==
    [][(pc = "validate" /\ ~endpoint.coercer.some) =>
          /\ params' = params
          /\ result' = Running
          /\ pc' = "after_validation"
          /\ trace' = Append(trace, Step("validate", 0, TRUE))]_vars

\* Validation without a schema has run on parameters from all three sources.
C11_Witness ==
    /\ ~endpoint.coercer.some
    /\ Succeeded("validate")
    /\ pc = "after_validation"
    /\ QueryObject.some
    /\ BodyObject.some
    /\ DOMAIN params = Keys

\* ---------------------------------------------------------------- C12

\* C12: a validation that failed is the last step of the call, which has
\* ended with a ValidationError that carries the validator's reason; no
\* after_validation callback, no handler and no after callback ran.
C12_ValidationErrorEnds ==
    \A n \in DOMAIN trace :
        (trace[n].name = "validate" /\ ~trace[n].ok) =>
            /\ endpoint.coercer.some
            /\ n = Len(trace)
            /\ pc = "done"
            /\ result.kind = "ValidationError"
            /\ result.phase \in
                  {out.reason : out \in {o \in process(endpoint.coercer.val, MergedParams) : ~o.ok}}
            /\ handler_calls = 0
            /\ handler_params = EmptyObject
            /\ ~Executed("after_validation")
            /\ ~Executed("after")

\* Validation has failed after coercing a key, with after_validation and
\* after callbacks registered.
C12_Witness ==
    /\ Executed("validate")
    /\ result.kind = "ValidationError"
    /\ result.phase = "active"
    /\ params # MergedParams
    /\ info["after_validation"] >= 1
    /\ info["after"] >= 1

\* ---------------------------------------------------------------- C13

\* The errors api_call returns as values.
ErrorKinds == {"NotMatchError", "QueryStringDecodeError", "BodyDecodeError",
               "ValidationError", "HookError", "HandlerError"}

\* The parameter object the body merge starts from.
QueryMergedParams ==
    QueryLoop(apply_captures(entry_params, Captures.val),
              QueryObject.val, DOMAIN QueryObject.val)

NonObjectBody == body_read /\ req.body.kind = "non_object"

\* C13: once the body merge has read a JSON body whose root is no object, the
\* call has ended with an error value, the body has given no key and the
\* handler was not invoked.
C13_NonObjectBodyRejected ==
    NonObjectBody =>
        /\ pc = "done"
        /\ result.kind \in ErrorKinds
        /\ params = QueryMergedParams
        /\ handler_calls = 0

\* ---------------------------------------------------------------- C14

\* C14: a call that has ended has returned a Response or one error of the
\* closed taxonomy, whatever the endpoint and the request (stated for the
\* calls that do not meet the non-object body of C13).
C14_AlwaysReturnsValue ==
    (pc = "done" /\ ~NonObjectBody) => result.kind \in {"Response"} \cup ErrorKinds

\* ---------------------------------------------------------------- C15

\* C15: a call whose path matches the endpoint's pattern and whose method is
\* not the endpoint's returns NotMatchError, and runs no callback and no
\* handler.
C15_MethodMismatchNotMatch ==
    (Captures.some /\ req.method # endpoint.method /\ pc # "api_call") =>
        /\ pc = "done"
        /\ result = NotMatchError
        /\ trace = <<>>
        /\ handler_calls = 0

\* ---------------------------------------------------------------- C16

\* What a call run alone on the inputs of the call `c` holds in its parameter
\* object after the steps `c` has taken, computed from the inputs of `c`, the
\* body its request gave, and the Endpoint.
AloneParams(c) ==
    LET caps == is_match(endpoint.path, c.rest_path)
        ok(name) == \E n \in DOMAIN c.trace : c.trace[n].name = name /\ c.trace[n].ok
        ran(name) == \E n \in DOMAIN c.trace : c.trace[n].name = name
        P0 == apply_captures(c.entry_params, caps.val)
        q == IF c.req.query.some THEN query_parse(c.req.query.val).val ELSE EmptyObject
        PQ == QueryLoop(P0, q, DOMAIN q)
        b == IF c.req.is_json_body /\ c.req.body.kind = "object"
             THEN c.req.body.obj ELSE EmptyObject
        PQB == BodyLoop(PQ, b, DOMAIN b)
    IN  IF c.pc = "api_call" \/ ~caps.some THEN {c.entry_params}
        ELSE IF ~ok("query_merge") THEN {P0}
        ELSE IF ~ok("body_merge") THEN {PQ}
        ELSE IF ~ran("validate") THEN {PQB}
        ELSE {out.params : out \in {o \in validate(endpoint, PQB) : o.ok = ok("validate")}}

\* What a call run alone returns after the steps `c` has taken.
AloneResult(c) ==
    LET caps == is_match(endpoint.path, c.rest_path)
        last == c.trace[Len(c.trace)]
    IN  IF c.pc # "done" THEN {Running}
        ELSE IF ~caps.some THEN {NotMatchError}
        ELSE IF c.trace = <<>> THEN {}
        ELSE IF last.ok THEN {Result("Response", "handled", 0)}
        ELSE IF last.name \in PhaseSet THEN {HookError(last.name, last.idx)}
        ELSE IF last.name = "query_merge" THEN {QueryStringDecodeError}
        ELSE IF last.name = "body_merge"
             THEN IF c.req.body.kind = "io_error" THEN {BodyDecodeError("io")}
                  ELSE IF c.req.body.kind = "invalid_utf8"
                       THEN {BodyDecodeError("Invalid UTF-8 sequence")}
                  ELSE IF c.req.body.kind = "malformed_json" THEN {BodyDecodeError("json")}
                  ELSE {Panic("as_object")}
        ELSE IF last.name = "validate"
             THEN {r \in {ValidationError(k) : k \in Keys} : r.phase \notin DOMAIN c.params}
        ELSE {HandlerError}

\* The call `c` stands where a call run alone on its inputs stands.
AsAlone(c) ==
    /\ c.params \in AloneParams(c)
    /\ \/ c.result \in AloneResult(c)
       \/ c.result = Panic("handler") /\ ~endpoint.handler /\ c.pc = "done"

\* C16: whatever the interleaving of two calls that share the Endpoint and
\* the CallInfo, no step changes the Endpoint or the CallInfo; a step is
\* either a step of the running call, which leaves everything the other call
\* owns as it is, or a switch, which changes nothing but who runs; and at
\* all times each call's parameter object and result are those of the same
\* call run alone on its inputs.
C16_NonInterference ==
    /\ [][/\ endpoint' = endpoint
          /\ info' = info
          /\ \/ parked' = parked /\ Next
             \/ parked' = Call /\ Call' = parked]_vars
    /\ [](AsAlone(Call) /\ AsAlone(parked))

\* Both calls are under way at once, each after the shared before callback,
\* the one past a body merge that added a key, the other past a failed
\* callback of its own.
C16_Witness ==
    /\ parked.pc = "handler"
    /\ pc = "done"
    /\ result = HookError("before_validation", 1)
    /\ parked.req.is_json_body
    /\ parked.body_read
    /\ DOMAIN parked.params = Keys
    /\ params # parked.params
    /\ Step("before", 1, TRUE) \in {trace[n] : n \in DOMAIN trace}
    /\ Step("before", 1, TRUE) \in {parked.trace[n] : n \in DOMAIN parked.trace}

\* ---------------------------------------------------------------- C17

\* The parameter object after the path captures are applied.
CapturedParams == apply_captures(entry_params, Captures.val)

\* C17: when both merges have succeeded the parameter object holds exactly
\* the keys of the object after capture application, of the query string and
\* of the body, each with the value of the first of the three that has it.
C17_LeftBiasedUnion ==
    Merged =>
        /\ DOMAIN params = (DOMAIN CapturedParams) \cup (DOMAIN QueryObject.val)
                               \cup (DOMAIN BodyObject.val)
        /\ \A k \in DOMAIN params :
              params[k] = IF k \in DOMAIN CapturedParams THEN CapturedParams[k]
                          ELSE IF k \in DOMAIN QueryObject.val THEN QueryObject.val[k]
                          ELSE BodyObject.val[k]

\* The before_validation phase starts on an object with one key from the
\* captures, and one key the query string and the body both give.
C17_Witness ==
    /\ Merged
    /\ pc = "before_validation"
    /\ \E k \in (DOMAIN QueryObject.val) \cap (DOMAIN BodyObject.val) :
         /\ k \notin DOMAIN CapturedParams
         /\ QueryObject.val[k] # BodyObject.val[k]
         /\ params[k] = QueryObject.val[k]
    /\ \E k \in DOMAIN Captures.val : k \in DOMAIN QueryObject.val

\* ---------------------------------------------------------------- C18

FailedBody == body_read /\ req.body.kind \in {"io_error", "invalid_utf8", "malformed_json"}

\* C18: once the body merge has met a body that cannot be read, decoded or
\* parsed after a query string that parsed, the call has ended with
\* BodyDecodeError, and the parameter object is the one before the merges
\* plus the query-string keys it did not hold: nothing is rolled back and
\* nothing comes from the body.
C18_BodyFailsAfterQuery ==
    (QueryObject.some /\ FailedBody) =>
        /\ pc = "done"
        /\ result.kind = "BodyDecodeError"
        /\ trace[Len(trace)] = Step("body_merge", 0, FALSE)
        /\ DOMAIN params = (DOMAIN CapturedParams) \cup (DOMAIN QueryObject.val)
        /\ \A k \in DOMAIN params :
              params[k] = IF k \in DOMAIN CapturedParams THEN CapturedParams[k]
                          ELSE QueryObject.val[k]

\* The body failed after the query string had added a key.
C18_Witness ==
    /\ QueryObject.some
    /\ FailedBody
    /\ req.body.kind = "malformed_json"
    /\ params # CapturedParams
    /\ params # entry_params
    /\ result.kind = "BodyDecodeError"

\* ---------------------------------------------------------------- C19

\* C19: an after callback that returned an error is the last step of the
\* call, which has ended with that error and no Response; the handler has run
\* exactly once, and returned Ok, before it.
C19_AfterHookError ==
    \A n \in DOMAIN trace :
        (trace[n].name = "after" /\ ~trace[n].ok) =>
            /\ n = Len(trace)
            /\ pc = "done"
            /\ result = HookError("after", trace[n].idx)
            /\ handler_calls = 1
            /\ \E m \in 1..(n - 1) : trace[m] = Step("handler", 0, TRUE)
            /\ client.response = "handled"

\* The first of two after callbacks has failed.
C19_Witness ==
    /\ info["after"] = 2
    /\ Len(trace) > 0
    /\ trace[Len(trace)] = Step("after", 1, FALSE)
    /\ result = HookError("after", 1)
    /\ handler_calls = 1

\* ---------------------------------------------------------------- C20

\* C20: a call that has ended with QueryStringDecodeError has run every
\* before callback, all of which returned Ok; and a call on a malformed query
\* string never reads the body, so that it never ends with BodyDecodeError.
C20_QueryErrorFirst ==
    /\ result.kind = "QueryStringDecodeError" =>
          \A n \in 1..info["before"] :
              Step("before", n, TRUE) \in {trace[m] : m \in DOMAIN trace}
    /\ MalformedQuery =>
          /\ ~body_read
          /\ req.body = Unread
          /\ result.kind # "BodyDecodeError"
          /\ pc = "done" => result.kind \in {"NotMatchError", "HookError", "QueryStringDecodeError"}

\* A malformed query string on a request with a JSON body, after two before
\* callbacks.
C20_Witness ==
    /\ result.kind = "QueryStringDecodeError"
    /\ req.is_json_body
    /\ info["before"] = 2
    /\ Len(trace) = 4

====
